---------------------------- MODULE Spec2Model ----------------------------
(***************************************************************************)
(* Model of the PNMixer preferences subsystem (src/src/prefs.c) and of the *)
(* preferences callbacks (src/src/callbacks.c): the GKeyFile backed        *)
(* configuration store, the preferences window with its staged widget      *)
(* values, and the hotkey capture dialog with its keyboard grab.           *)
(*                                                                         *)
(* Texts are sequences of atoms.  A digit, a sign, a dot and a semicolon   *)
(* are atoms of their own, so that numbers are really formatted and        *)
(* parsed; a word ("vertical", "<Primary>", "c") is one atom.              *)
(*                                                                         *)
(* The build modelled is the one WITH_GTK3 says, without HAVE_LIBN.        *)
(***************************************************************************)
EXTENDS Integers, Sequences, FiniteSets, TLC

(***************************************************************************)
(* Bounds of the model.                                                    *)
(***************************************************************************)
MaxDepth == 2          \* acquire_hotkey frames that may be on the C stack
MaxCommits == 1        \* OK-button commits explored per run
MaxOpens == 2          \* preferences windows opened per run
MaxCaptures == 2       \* capture sessions started per run
MaxEdits == 1          \* widget edits made per run
MaxWrites == 2         \* prefs_set_* calls made per run of the store alone

\* #ifdef WITH_GTK3: the build that is modelled
WITH_GTK3 == TRUE

(***************************************************************************)
(* Texts.                                                                  *)
(***************************************************************************)
Digits == <<"0", "1", "2", "3", "4", "5", "6", "7", "8", "9">>

IsDigit(a) == \E i \in 1..10 : Digits[i] = a

DigitVal(a) == (CHOOSE i \in 1..10 : Digits[i] = a) - 1

RECURSIVE NatToText(_)
NatToText(n) ==
    IF n < 10 THEN <<Digits[n + 1]>>
    ELSE NatToText(n \div 10) \o <<Digits[(n % 10) + 1]>>

\* printf("%d") as used by g_key_file_set_integer
IntToText(n) == IF n < 0 THEN <<"-">> \o NatToText(0 - n) ELSE NatToText(n)

RECURSIVE DigitsVal(_)
DigitsVal(t) ==
    IF t = <<>> THEN 0
    ELSE 10 * DigitsVal(SubSeq(t, 1, Len(t) - 1)) + DigitVal(t[Len(t)])

AllDigits(t) == t # <<>> /\ \A i \in 1..Len(t) : IsDigit(t[i])

\* strtol over the whole value, as g_key_file_parse_value_as_integer does:
\* an optional sign, at least one digit, nothing after the digits.
ParseInt(t) ==
    IF AllDigits(t) THEN [ok |-> TRUE, v |-> DigitsVal(t)]
    ELSE IF t # <<>> /\ t[1] = "-" /\ AllDigits(Tail(t))
         THEN [ok |-> TRUE, v |-> 0 - DigitsVal(Tail(t))]
    ELSE IF t # <<>> /\ t[1] = "+" /\ AllDigits(Tail(t))
         THEN [ok |-> TRUE, v |-> DigitsVal(Tail(t))]
    ELSE [ok |-> FALSE, v |-> 0]

\* A double is held in tenths (55 is 5.5).  g_ascii_dtostr prints the
\* shortest text: no fraction when the value is whole.
DoubleToText(d) ==
    LET a == IF d < 0 THEN 0 - d ELSE d
        body == NatToText(a \div 10) \o
                (IF a % 10 = 0 THEN <<>> ELSE <<".", Digits[(a % 10) + 1]>>)
    IN  IF d < 0 THEN <<"-">> \o body ELSE body

\* g_ascii_strtod over the whole value: digits, optionally a dot and one
\* more digit (the model's precision); result in tenths.
ParseDouble(t) ==
    LET neg  == t # <<>> /\ t[1] = "-"
        u    == IF neg THEN Tail(t) ELSE t
        sgn  == IF neg THEN 0 - 1 ELSE 1
    IN  IF AllDigits(u) THEN [ok |-> TRUE, v |-> sgn * 10 * DigitsVal(u)]
        ELSE IF /\ Len(u) >= 3
                /\ u[Len(u) - 1] = "."
                /\ AllDigits(SubSeq(u, 1, Len(u) - 2))
                /\ IsDigit(u[Len(u)])
             THEN [ok |-> TRUE,
                   v |-> sgn * (10 * DigitsVal(SubSeq(u, 1, Len(u) - 2))
                                + DigitVal(u[Len(u)]))]
        ELSE [ok |-> FALSE, v |-> 0]

BoolToText(b) == IF b THEN <<"true">> ELSE <<"false">>

\* g_key_file_parse_value_as_boolean: "true"/"1" and "false"/"0"
ParseBool(t) ==
    IF t = <<"true">> \/ t = <<"1">> THEN [ok |-> TRUE, v |-> TRUE]
    ELSE IF t = <<"false">> \/ t = <<"0">> THEN [ok |-> TRUE, v |-> FALSE]
    ELSE [ok |-> FALSE, v |-> FALSE]

\* g_key_file_set_double_list: every item followed by the list separator
RECURSIVE DoubleListToText(_)
DoubleListToText(l) ==
    IF l = <<>> THEN <<>>
    ELSE DoubleToText(Head(l)) \o <<";">> \o DoubleListToText(Tail(l))


(***************************************************************************)
(* The configuration store: the static GKeyFile *keyFile of prefs.c.       *)
(* NULL is the empty tuple; an allocated key file is <<kv>>, kv a function *)
(* from the <<group, key>> pairs present to their value texts.  A C string *)
(* result is NULLSTR or Str(text).                                         *)
(***************************************************************************)
NULL == <<>>

NULLSTR == <<>>

Str(t) == <<t>>

PN == "PNMixer"

EmptyKv == [x \in {} |-> <<>>]

KvSet(kv, g, k, t) ==
    [x \in (DOMAIN kv) \cup {<<g, k>>} |-> IF x = <<g, k>> THEN t ELSE kv[x]]

\* g_key_file_has_key; g_return_val_if_fail(key_file != NULL, FALSE)
KfHas(kf, g, k) == kf # NULL /\ <<g, k>> \in DOMAIN kf[1]

\* g_key_file_set_value; g_return_if_fail(key_file != NULL)
KfSet(kf, g, k, t) == IF kf = NULL THEN NULL ELSE <<KvSet(kf[1], g, k, t)>>

\* (variant: a default document with another scroll step and no card)
DEFAULT_PREFS_other ==
    [x \in {<<"PNMixer", "SliderOrientation">>, <<"PNMixer", "ScrollStep">>} |->
        IF x[2] = "ScrollStep" THEN <<"3">> ELSE <<"vertical">>]

\* #define DEFAULT_PREFS, as g_key_file_load_from_data parses it
DEFAULT_PREFS ==
    LET d == {<<"SliderOrientation",  <<"vertical">>>>,
              <<"DisplayTextVolume",  <<"true">>>>,
              <<"TextVolumePosition", <<"0">>>>,
              <<"ScrollStep",         <<"5">>>>,
              <<"FineScrollStep",     <<"1">>>>,
              <<"HotkeyVolumeStep",   <<"1">>>>,
              <<"MiddleClickAction",  <<"0">>>>,
              <<"CustomCommand",      <<>>>>,
              <<"VolMuteKey",         <<"-", "1">>>>,
              <<"VolUpKey",           <<"-", "1">>>>,
              <<"VolDownKey",         <<"-", "1">>>>,
              <<"AlsaCard",           <<"default">>>>,
              <<"SystemTheme",        <<"false">>>>}
    IN  [x \in {<<PN, p[1]>> : p \in d} |->
            (CHOOSE p \in d : p[1] = x[2])[2]]

\* The typed getters.  With keyFile NULL the g_key_file_get_* call fails its
\* g_return_val_if_fail, returns its fallback (FALSE, -1, -1, NULL) and
\* does not set the GError, so the getter returns that fallback, not def.
prefs_get_boolean(kf, key, def) ==
    IF kf = NULL THEN FALSE
    ELSE IF <<PN, key>> \notin DOMAIN kf[1] THEN def
    ELSE LET r == ParseBool(kf[1][<<PN, key>>])
         IN  IF r.ok THEN r.v ELSE def

prefs_get_integer(kf, key, def) ==
    IF kf = NULL THEN 0 - 1
    ELSE IF <<PN, key>> \notin DOMAIN kf[1] THEN def
    ELSE LET r == ParseInt(kf[1][<<PN, key>>])
         IN  IF r.ok THEN r.v ELSE def

\* doubles are in tenths: the fallback -1 is -10
prefs_get_double(kf, key, def) ==
    IF kf = NULL THEN 0 - 10
    ELSE IF <<PN, key>> \notin DOMAIN kf[1] THEN def
    ELSE LET r == ParseDouble(kf[1][<<PN, key>>])
         IN  IF r.ok THEN r.v ELSE def

prefs_get_string(kf, key, def) ==
    IF kf = NULL THEN NULLSTR
    ELSE IF <<PN, key>> \notin DOMAIN kf[1] THEN def
    ELSE Str(kf[1][<<PN, key>>])

\* A card name is a text of one atom; its group is named by that atom.
GroupOf(t) == IF Len(t) = 1 THEN t[1] ELSE "?"

\* card is NULLSTR or Str(name); the GError is not looked at
prefs_get_channel(kf, card) ==
    IF card = NULLSTR THEN NULLSTR
    ELSE IF kf = NULL THEN NULLSTR
    ELSE IF <<GroupOf(card[1]), "Channel">> \notin DOMAIN kf[1] THEN NULLSTR
    ELSE Str(kf[1][<<GroupOf(card[1]), "Channel">>])

prefs_set_boolean(kf, key, value) == KfSet(kf, PN, key, BoolToText(value))

prefs_set_integer(kf, key, value) == KfSet(kf, PN, key, IntToText(value))

prefs_set_double(kf, key, value) == KfSet(kf, PN, key, DoubleToText(value))

prefs_set_string(kf, key, value) == KfSet(kf, PN, key, value)

prefs_set_channel(kf, card, channel) == KfSet(kf, GroupOf(card), "Channel", channel)

prefs_set_vol_meter_colors(kf, colors) ==
    KfSet(kf, PN, "VolMeterColor", DoubleListToText(colors))

\* g_key_file_get_double_list: the items between the separators, each
\* parsed as a double; NULL (here <<>> with ok FALSE) when one does not parse.
RECURSIVE SplitList(_, _)
SplitList(t, cur) ==
    IF t = <<>> THEN (IF cur = <<>> THEN <<>> ELSE <<cur>>)
    ELSE IF Head(t) = ";" THEN <<cur>> \o SplitList(Tail(t), <<>>)
    ELSE SplitList(Tail(t), Append(cur, Head(t)))

ParseDoubleList(t) ==
    LET items == SplitList(t, <<>>)
    IN  IF \A i \in 1..Len(items) : ParseDouble(items[i]).ok
        THEN [ok |-> TRUE, v |-> [i \in 1..Len(items) |-> ParseDouble(items[i]).v]]
        ELSE [ok |-> FALSE, v |-> <<>>]

\* a double that is not a number: no comparison with it holds
NaN == 0 - 999

\* if (colors[i] < 0) colors[i] = 0; if (colors[i] > 1) colors[i] = 1;
Clamp(c) == IF c = NaN THEN NaN ELSE IF c < 0 THEN 0 ELSE IF c > 10 THEN 10 ELSE c

\* The values a read past the end of a short colour list can yield.
Junk == {0 - 10, 5, 20, NaN}

\* prefs_get_vol_meter_colors: the set of triples the call can return.  The
\* built-in default (0.909803921569, 0.43137254902, 0.43137254902) is shown
\* in tenths.  A stored list shorter than 3 is read, and written, past its
\* end: those components are whatever lies there.
prefs_get_vol_meter_colors(kf) ==
    LET stored == IF KfHas(kf, PN, "VolMeterColor")
                  THEN ParseDoubleList(kf[1][<<PN, "VolMeterColor">>])
                  ELSE [ok |-> FALSE, v |-> <<>>]
        \* g_key_file_get_double_list returns NULL for an empty list too
        have == stored.ok /\ Len(stored.v) > 0
    IN  IF ~have THEN {<<9, 4, 4>>}
        ELSE {[i \in 1..3 |-> Clamp(IF i <= Len(stored.v) THEN stored.v[i] ELSE j[i])] :
                 j \in [1..3 -> Junk]}


(***************************************************************************)
(* Modifiers, the keymap and the accelerator codec (GDK, GTK and Xlib as   *)
(* prefs.c and callbacks.c call them).  A modifier state is a set of       *)
(* modifier names; a key symbol is its name, NoSymbol being the keysym 0.  *)
(***************************************************************************)
ModBit(m) ==
    CASE m = "Shift" -> 1 [] m = "Lock" -> 2 [] m = "Control" -> 4
      [] m = "Mod1" -> 8 [] m = "Mod2" -> 16

AllMods == {"Shift", "Lock", "Control", "Mod1", "Mod2"}

RECURSIVE ModsToInt(_)
ModsToInt(ms) ==
    IF ms = {} THEN 0
    ELSE LET m == CHOOSE x \in ms : TRUE IN ModBit(m) + ModsToInt(ms \ {m})

IntToMods(n) == {m \in AllMods : (n \div ModBit(m)) % 2 = 1}

\* gtk_accelerator_get_default_mod_mask
DefaultModMask == {"Shift", "Control", "Mod1"}

NoSymbol == "NoSymbol"

\* The keyboard: hardware keycodes with their XKB key type and the symbols
\* of their two shift levels.  As in the evdev keymap, the symbol
\* XF86AudioPlay is on two keycodes.
Keycodes == {9, 38, 54, 172, 208}

KeyType(kc) == IF kc \in {38, 54} THEN "ALPHABETIC" ELSE "ONE_LEVEL"

KeySyms(kc) ==
    CASE kc = 9 -> <<"Escape", "Escape">>
      [] kc = 38 -> <<"a", "A">>
      [] kc = 54 -> <<"c", "C">>
      [] kc = 172 -> <<"XF86AudioPlay", "XF86AudioPlay">>
      [] kc = 208 -> <<"XF86AudioPlay", "XF86AudioPlay">>
      [] OTHER -> <<NoSymbol, NoSymbol>>

\* gdk_keyval_to_lower
KeyvalToLower(ks) ==
    CASE ks = "A" -> "a" [] ks = "C" -> "c" [] OTHER -> ks

\* gdk_keymap_translate_keyboard_state: the symbol at the shift level the
\* state selects, and the modifiers the key's type consumes.
TranslateKeyboardState(kc, state) ==
    LET alpha == KeyType(kc) = "ALPHABETIC"
        level == IF alpha /\ (("Shift" \in state) # ("Lock" \in state))
                 THEN 2 ELSE 1
    IN  [keyval |-> KeySyms(kc)[level],
         consumed |-> IF alpha THEN {"Shift", "Lock"} ELSE {}]

\* XkbKeycodeToKeysym(dpy, code, 0, 0): the symbol of the first level
XkbKeycodeToKeysym(code) ==
    IF code \in Keycodes THEN KeySyms(code)[1] ELSE NoSymbol

\* XKeysymToKeycode: the lowest keycode carrying the symbol, the first
\* level looked at before the second; 0 when there is none
XKeysymToKeycode(ks) ==
    LET at(l) == {kc \in Keycodes : KeySyms(kc)[l] = ks}
        min(S) == CHOOSE x \in S : \A y \in S : x <= y
    IN  IF at(1) # {} THEN min(at(1))
        ELSE IF at(2) # {} THEN min(at(2))
        ELSE 0

\* gtk_accelerator_name: the modifier tags in GTK's order, then the name of
\* the lower-cased symbol (nothing for NoSymbol).
gtk_accelerator_name(keyval, mods) ==
    (IF "Control" \in mods THEN <<"<Primary>">> ELSE <<>>) \o
    (IF "Shift" \in mods THEN <<"<Shift>">> ELSE <<>>) \o
    (IF "Mod1" \in mods THEN <<"<Alt>">> ELSE <<>>) \o
    (IF "Mod2" \in mods THEN <<"<Mod2>">> ELSE <<>>) \o
    (IF "Lock" \in mods THEN <<"<Lock>">> ELSE <<>>) \o
    (IF keyval = NoSymbol THEN <<>> ELSE <<KeyvalToLower(keyval)>>)

TagMod(a) ==
    CASE a = "<Primary>" -> "Control" [] a = "<Control>" -> "Control"
      [] a = "<Shift>" -> "Shift" [] a = "<Alt>" -> "Mod1"
      [] a = "<Mod2>" -> "Mod2" [] a = "<Lock>" -> "Lock"
      [] OTHER -> "none"

KeyNames == {"Escape", "a", "A", "c", "C", "XF86AudioPlay"}

\* The scan of gtk_accelerator_parse: leading modifier tags, then one key
\* name; error when what follows the tags is not a key name.
RECURSIVE AccelScan(_)
AccelScan(t) ==
    IF t = <<>> THEN [error |-> FALSE, keysym |-> NoSymbol, mods |-> {}]
    ELSE IF TagMod(Head(t)) # "none"
         THEN LET r == AccelScan(Tail(t))
              IN  [r EXCEPT !.mods = r.mods \cup {TagMod(Head(t))}]
    ELSE IF Len(t) = 1 /\ Head(t) \in KeyNames
         THEN [error |-> FALSE, keysym |-> KeyvalToLower(Head(t)), mods |-> {}]
    ELSE [error |-> TRUE, keysym |-> NoSymbol, mods |-> {}]

\* gtk_accelerator_parse: both results are 0 when the text is not an
\* accelerator.
gtk_accelerator_parse(t) ==
    LET r == AccelScan(t)
    IN  IF r.error THEN [keysym |-> NoSymbol, mods |-> {}]
        ELSE [keysym |-> r.keysym, mods |-> r.mods]

\* strcasecmp(a, b) = 0 for texts of the model: equal up to letter case
Lower(a) ==
    CASE a = "<PRIMARY>" -> "<primary>" [] a = "<Primary>" -> "<primary>"
      [] a = "C" -> "c" [] a = "A" -> "a" [] OTHER -> a

StrCaseEq(s, t) ==
    Len(s) = Len(t) /\ \A i \in 1..Len(s) : Lower(s[i]) = Lower(t[i])


(***************************************************************************)
(* The environment outside prefs.c and callbacks.c.                        *)
(***************************************************************************)
\* the sound cards ALSA lists, with their channels
CardNames == <<"default", "hw1">>

CardChannels(c) ==
    IF c = "default" THEN <<"Master", "PCM">> ELSE <<"Master", "Speaker">>

\* static const gchar *vol_commands[]
vol_commands == <<"pavucontrol", "gnome-alsamixer", "xfce4-mixer", "alsamixergui">>

\* a configuration file a user may have from an earlier run
UserKv ==
    KvSet(KvSet(KvSet(KvSet(KvSet(DEFAULT_PREFS,
        PN, "AlsaCard", <<"hw1">>),
        "hw1", "Channel", <<"Speaker">>),
        PN, "EnableHotKeys", <<"true">>),
        PN, "VolUpKey", <<"3", "8">>),
        PN, "VolUpMods", <<"4">>)

VARIABLES
    alive,          \* the process runs (FALSE once it has crashed)
    booted,         \* main() has loaded and applied the preferences
    keyFile,        \* static GKeyFile *keyFile
    cfgDir,         \* ~/.config/pnmixer: "missing", "dir" or "file"
    cfgFile,        \* ~/.config/pnmixer/config: [state, kv]
    installed,      \* the programs `which` finds
    activeCard,     \* alsa_get_active_card(): NULLSTR or Str(name text)
    prefs,          \* PrefsData: NULL, or <<the widgets of the open window>>
    stack,          \* the acquire_hotkey calls blocked in gtk_dialog_run
    grabbed,        \* the input devices this process holds a grab on
    dialogVisible,  \* hotkey_dialog is shown
    runtime,        \* what apply_prefs handed to the rest of the program
    reported,       \* the report_error messages of the latest step
    lastCall,       \* the acquire_hotkey call that returned in the latest step
    lastGet,        \* the latest direct prefs_get_* call and its result
    counts          \* [opens, commits, captures, edits], to bound the runs

vars == <<alive, booted, keyFile, cfgDir, cfgFile, installed, activeCard, prefs,
          stack, grabbed, dialogVisible, runtime, reported, lastCall, lastGet,
          counts>>

storeVars == <<keyFile, cfgDir, cfgFile>>

captureVars == <<stack, grabbed, dialogVisible, lastCall>>

NoFile == [state |-> "absent", kv |-> EmptyKv]

NoCall == [widget |-> "", result |-> "none", grabTried |-> FALSE,
           xgrant |-> "none", ungrabs |-> 0, releases |-> 0, pressed |-> FALSE,
           keycode |-> 0, state |-> {}]

\* no prefs_set_* call to tell of
NoChain == [ops |-> <<>>, type |-> "none", key |-> "", val |-> 0]

NoGet == [op |-> "none", type |-> "none", key |-> "", def |-> 0, ret |-> 0,
          found |-> FALSE, loaded |-> FALSE, io |-> FALSE, inst |-> {},
          chain |-> NoChain]

NoRuntime ==
    [scroll_step |-> 0, fine_scroll_step |-> 0,
     keys |-> <<0 - 1, 0 - 1, 0 - 1, 0, 0, 0, 1>>,
     noti |-> <<FALSE, FALSE, FALSE, FALSE, FALSE, 0>>,
     color |-> <<0, 0, 0>>, alsa_reinit |-> FALSE, calls |-> {}, order |-> <<>>]

Init ==
    /\ alive = TRUE
    /\ booted = FALSE
    /\ keyFile = NULL
    /\ \E d \in {"missing", "dir"} :
         /\ cfgDir = d
         /\ \/ cfgFile = NoFile
            \/ d = "dir" /\ cfgFile = [state |-> "valid", kv |-> UserKv]
            \/ d = "dir" /\ cfgFile = [state |-> "malformed", kv |-> EmptyKv]
    /\ installed = {"xfce4-mixer", "alsamixergui"}
    /\ activeCard = NULLSTR
    /\ prefs = NULL
    /\ stack = <<>>
    /\ grabbed = {}
    /\ dialogVisible = FALSE
    /\ runtime = NoRuntime
    /\ reported = {}
    /\ lastCall = NoCall
    /\ lastGet = NoGet
    /\ counts = [opens |-> 0, commits |-> 0, captures |-> 0, edits |-> 0]

(***************************************************************************)
(* Loading, saving and applying.                                           *)
(***************************************************************************)
\* (variant: the file is loaded into the key file there is)
prefs_load_merge(file) ==
    LET read == IF file.state = "absent" THEN DEFAULT_PREFS ELSE file.kv
    IN  IF file.state = "malformed" THEN [kf |-> NULL, reported |-> {"load"}]
        ELSE IF keyFile = NULL THEN [kf |-> <<read>>, reported |-> {}]
        ELSE [kf |-> <<[x \in (DOMAIN read) \cup (DOMAIN keyFile[1]) |->
                          IF x \in DOMAIN read THEN read[x] ELSE keyFile[1][x]]>>,
              reported |-> {}]

\* prefs_load: [kf, reported].  The old key file is freed and a new one is
\* made; a file that exists is parsed, else DEFAULT_PREFS is; when the
\* parse fails the new key file is freed and keyFile is left NULL.
prefs_load(file) ==
    IF file.state = "absent" THEN [kf |-> <<DEFAULT_PREFS>>, reported |-> {}]
    ELSE IF file.state = "valid" THEN [kf |-> <<file.kv>>, reported |-> {}]
    ELSE [kf |-> NULL, reported |-> {"load"}]

\* (variant: only the keys of the main group are written)
prefs_save_main_group_only(kf, dir, file, io) ==
    IF kf = NULL \/ dir # "dir" \/ ~io
    THEN {[file |-> file, reported |-> {"save"}]}
    ELSE {[file |-> [state |-> "valid",
                     kv |-> [x \in {y \in DOMAIN kf[1] : y[1] = "PNMixer"} |-> kf[1][x]]],
           reported |-> {}]}

\* prefs_save: the set of [file, reported] outcomes.  io tells whether the
\* file system takes the write.  With keyFile NULL g_key_file_to_data
\* returns NULL and leaves len unset: g_file_set_contents then either
\* refuses (len # 0, no GError) or writes an empty file (len = 0).
prefs_save(kf, dir, file, io) ==
    LET writable == dir = "dir" /\ io
    IN  IF kf = NULL
        THEN {[file |-> file, reported |-> {}]} \cup
             (IF writable
              THEN {[file |-> [state |-> "valid", kv |-> EmptyKv], reported |-> {}]}
              ELSE {[file |-> file, reported |-> {"save"}]})
        ELSE IF writable
             THEN {[file |-> [state |-> "valid", kv |-> kf[1]], reported |-> {}]}
             ELSE {[file |-> file, reported |-> {"save"}]}

\* prefs_ensure_save_dir: [dir, reported]; mk tells whether g_mkdir succeeds
prefs_ensure_save_dir(dir, mk) ==
    IF dir = "dir" THEN [dir |-> dir, reported |-> {}]
    ELSE IF dir = "file" THEN [dir |-> dir, reported |-> {"notdir"}]
    ELSE IF mk THEN [dir |-> "dir", reported |-> {}]
    ELSE [dir |-> dir, reported |-> {"mkdir"}]

\* set_notification_options
set_notification_options(kf) ==
    <<prefs_get_boolean(kf, "EnableNotifications", FALSE),
      prefs_get_boolean(kf, "HotkeyNotifications", TRUE),
      prefs_get_boolean(kf, "MouseNotifications", TRUE),
      prefs_get_boolean(kf, "PopupNotifications", FALSE),
      prefs_get_boolean(kf, "ExternalNotifications", FALSE),
      prefs_get_integer(kf, "NotificationTimeout", 1500)>>

\* the card ALSA opens for the stored AlsaCard (alsa.c): that card when it
\* is listed, else the first card
AlsaOpen(kf) ==
    LET want == prefs_get_string(kf, "AlsaCard", NULLSTR)
    IN  IF want # NULLSTR /\ \E i \in 1..Len(CardNames) : <<CardNames[i]>> = want[1]
        THEN want ELSE Str(<<CardNames[1]>>)

\* apply_prefs: the calls it makes, <<function, key>>, in their order
apply_prefs_calls(alsa_change) ==
    <<<<"gtk_adjustment_set_page_increment", "">>,
      <<"gtk_adjustment_set_step_increment", "">>,
      <<"grab_keys", "">>, <<"set_notification_options", "">>,
      <<"set_vol_meter_color", "">>, <<"update_status_icons", "">>,
      <<"update_vol_text", "">>>>
    \o (IF alsa_change THEN <<<<"do_alsa_reinit", "">>>> ELSE <<>>)

\* (variant: the stored keys are grabbed whether or not hotkeys are enabled)
apply_prefs_keys_always(kf, alsa_change, colors) ==
    [scroll_step |-> prefs_get_integer(kf, "ScrollStep", 5),
     fine_scroll_step |-> prefs_get_integer(kf, "FineScrollStep", 1),
     keys |-> <<prefs_get_integer(kf, "VolMuteKey", 0 - 1),
                prefs_get_integer(kf, "VolUpKey", 0 - 1),
                prefs_get_integer(kf, "VolDownKey", 0 - 1),
                prefs_get_integer(kf, "VolMuteMods", 0),
                prefs_get_integer(kf, "VolUpMods", 0),
                prefs_get_integer(kf, "VolDownMods", 0),
                prefs_get_integer(kf, "HotkeyVolumeStep", 1)>>,
     noti |-> set_notification_options(kf),
     color |-> colors,
     alsa_reinit |-> alsa_change,
     calls |-> {"gtk_adjustment_set_page_increment",
                "gtk_adjustment_set_step_increment", "grab_keys",
                "set_vol_meter_color", "update_status_icons", "update_vol_text"}
               \cup (IF alsa_change THEN {"do_alsa_reinit"} ELSE {}),
     order |-> <<<<"apply_prefs", "">>>> \o apply_prefs_calls(alsa_change)]

\* apply_prefs: the runtime record, colors being the triple
\* prefs_get_vol_meter_colors returned; calls are the functions of the rest
\* of the program that were called, order the calls of the handler that
\* applied the preferences
apply_prefs(kf, alsa_change, colors) ==
    [scroll_step |-> prefs_get_integer(kf, "ScrollStep", 5),
     fine_scroll_step |-> prefs_get_integer(kf, "FineScrollStep", 1),
     keys |-> IF prefs_get_boolean(kf, "EnableHotKeys", FALSE)
              THEN <<prefs_get_integer(kf, "VolMuteKey", 0 - 1),
                     prefs_get_integer(kf, "VolUpKey", 0 - 1),
                     prefs_get_integer(kf, "VolDownKey", 0 - 1),
                     prefs_get_integer(kf, "VolMuteMods", 0),
                     prefs_get_integer(kf, "VolUpMods", 0),
                     prefs_get_integer(kf, "VolDownMods", 0),
                     prefs_get_integer(kf, "HotkeyVolumeStep", 1)>>
              ELSE <<0 - 1, 0 - 1, 0 - 1, 0, 0, 0, 1>>,
     noti |-> set_notification_options(kf),
     color |-> colors,
     alsa_reinit |-> alsa_change,
     calls |-> {"gtk_adjustment_set_page_increment",
                "gtk_adjustment_set_step_increment", "grab_keys",
                "set_vol_meter_color", "update_status_icons", "update_vol_text"}
               \cup (IF alsa_change THEN {"do_alsa_reinit"} ELSE {}),
     order |-> <<<<"apply_prefs", "">>>> \o apply_prefs_calls(alsa_change)]

\* main(): the preferences directory is ensured, the preferences are
\* loaded, ALSA is initialised and the preferences are applied.
Main ==
    /\ alive /\ ~booted
    /\ \E mk \in BOOLEAN :
         LET e == prefs_ensure_save_dir(cfgDir, mk)
             l == prefs_load(cfgFile)
         IN  /\ cfgDir' = e.dir
             /\ keyFile' = l.kf
             /\ reported' = e.reported \cup l.reported
             /\ activeCard' = AlsaOpen(l.kf)
             /\ \E c \in prefs_get_vol_meter_colors(l.kf) :
                    runtime' = apply_prefs(l.kf, FALSE, c)
    /\ booted' = TRUE
    /\ UNCHANGED <<alive, cfgFile, installed, prefs, stack, grabbed,
                   dialogVisible, lastCall, lastGet, counts>>

\* In a GLib built with G_DISABLE_CHECKS a key file call on the NULL
\* keyFile dereferences it: the process ends.
NullStoreCrash ==
    /\ alive /\ booted /\ keyFile = NULL /\ stack = <<>>
    /\ alive' = FALSE
    /\ UNCHANGED <<booted, keyFile, cfgDir, cfgFile, installed, activeCard, prefs,
                   stack, grabbed, dialogVisible, runtime, reported, lastCall,
                   lastGet, counts>>


(***************************************************************************)
(* The preferences window.                                                 *)
(***************************************************************************)
\* (variant: the probing goes on after a program was found)
prefs_get_vol_command_last(kf, inst) ==
    LET ret == prefs_get_string(kf, "VolumeControlCommand", <<>>)
        found == {i \in 1..4 :
                    <<"pavucontrol", "gnome-alsamixer", "xfce4-mixer",
                      "alsamixergui">>[i] \in inst}
    IN  IF ret # <<>> THEN ret
        ELSE IF found = {} THEN <<>>
        ELSE <<<<(<<"pavucontrol", "gnome-alsamixer", "xfce4-mixer",
                   "alsamixergui">>)[CHOOSE i \in found : \A j \in found : i >= j]>>>>

\* prefs_get_vol_command: the stored command, else the first of
\* vol_commands that `which` finds, else NULL
prefs_get_vol_command(kf, inst) ==
    LET ret == prefs_get_string(kf, "VolumeControlCommand", NULLSTR)
        found == {i \in 1..Len(vol_commands) : vol_commands[i] \in inst}
    IN  IF ret # NULLSTR THEN ret
        ELSE IF found = {} THEN NULLSTR
        ELSE Str(<<vol_commands[CHOOSE i \in found : \A j \in found : i <= j]>>)

\* fill_channel_combo: the active text after the fill, the selected channel
\* when the card has it, else the card's first channel
fill_channel_combo(card, selected) ==
    LET chans == CardChannels(GroupOf(card))
    IN  IF selected # NULLSTR /\ \E i \in 1..Len(chans) : <<chans[i]>> = selected[1]
        THEN selected[1] ELSE <<chans[1]>>

\* set_label_for_keycode: the new text of a label showing old
set_label_for_keycode(old, code, mods) ==
    IF code < 0 THEN old
    ELSE gtk_accelerator_name(XkbKeycodeToKeysym(code), IntToMods(mods))

\* the text the hotkey labels carry in the interface file
NoneText == <<"(None)">>

HotkeyLabel(kf, key, modskey) ==
    IF KfHas(kf, PN, key)
    THEN set_label_for_keycode(NoneText, prefs_get_integer(kf, key, 0),
                               prefs_get_integer(kf, modskey, 0))
    ELSE NoneText

\* create_prefs_window: the widgets as they are filled from the store;
\* colors is the triple prefs_get_vol_meter_colors returned
create_prefs_window(kf, inst, active, colors) ==
    LET so   == prefs_get_string(kf, "SliderOrientation", NULLSTR)
        cmd  == prefs_get_vol_command(kf, inst)
        cust == prefs_get_string(kf, "CustomCommand", NULLSTR)
        card == active[1]
    IN  [slider_orientation_combo |->
             IF so = Str(<<"horizontal">>) THEN <<"horizontal">> ELSE <<"vertical">>,
         vol_text_check |-> prefs_get_boolean(kf, "DisplayTextVolume", FALSE),
         vol_pos_combo |-> prefs_get_integer(kf, "TextVolumePosition", 0),
         draw_vol_check |-> prefs_get_boolean(kf, "DrawVolMeter", FALSE),
         vol_meter_pos_spin |-> prefs_get_integer(kf, "VolMeterPos", 0),
         system_theme |-> prefs_get_boolean(kf, "SystemTheme", FALSE),
         vol_meter_color_button |-> colors,
         card_combo |-> card,
         chan_combo |-> fill_channel_combo(card, prefs_get_channel(kf, Str(card))),
         normalize_vol_check |-> prefs_get_boolean(kf, "NormalizeVolume", FALSE),
         vol_control_entry |-> IF cmd = NULLSTR THEN <<>> ELSE cmd[1],
         scroll_step_spin |-> prefs_get_double(kf, "ScrollStep", 50),
         fine_scroll_step_spin |-> prefs_get_double(kf, "FineScrollStep", 10),
         middle_click_combo |-> prefs_get_integer(kf, "MiddleClickAction", 0),
         custom_entry |-> IF cust = NULLSTR THEN <<>> ELSE cust[1],
         enable_hotkeys_check |-> prefs_get_boolean(kf, "EnableHotKeys", FALSE),
         hotkey_vol_spin |-> prefs_get_integer(kf, "HotkeyVolumeStep", 1),
         hotkey_key_label |-> <<>>,
         mute_hotkey_label |-> HotkeyLabel(kf, "VolMuteKey", "VolMuteMods"),
         up_hotkey_label |-> HotkeyLabel(kf, "VolUpKey", "VolUpMods"),
         down_hotkey_label |-> HotkeyLabel(kf, "VolDownKey", "VolDownMods")]

W == prefs[1]

\* no window, or dialog, of the program is up before this one
Idle == alive /\ booted /\ stack = <<>>

\* the user opens the preferences window
OpenPrefs ==
    /\ Idle /\ prefs = NULL
    /\ counts.opens < MaxOpens
    /\ \E c \in prefs_get_vol_meter_colors(keyFile) :
           prefs' = <<create_prefs_window(keyFile, installed, activeCard, c)>>
    /\ counts' = [counts EXCEPT !.opens = @ + 1]
    /\ reported' = {}
    /\ lastCall' = NoCall
    /\ UNCHANGED <<alive, booted, keyFile, cfgDir, cfgFile, installed, activeCard,
                   stack, grabbed, dialogVisible, runtime, lastGet>>

\* on_card_changed: another card is picked, the channel list is refilled
on_card_changed(i) ==
    /\ Idle /\ prefs # NULL
    /\ counts.edits < MaxEdits
    /\ W.card_combo # <<CardNames[i]>>
    /\ prefs' = <<[W EXCEPT !.card_combo = <<CardNames[i]>>,
                            !.chan_combo =
                                fill_channel_combo(<<CardNames[i]>>,
                                    prefs_get_channel(keyFile, Str(<<CardNames[i]>>)))]>>
    /\ counts' = [counts EXCEPT !.edits = @ + 1]
    /\ reported' = {}
    /\ lastCall' = NoCall
    /\ UNCHANGED <<alive, booted, keyFile, cfgDir, cfgFile, installed, activeCard,
                   stack, grabbed, dialogVisible, runtime, lastGet>>

\* the values the user sets the scroll step spin button to (in tenths)
ScrollSteps == {55, 100}

\* the colours the user picks with the colour button (in tenths)
MeterColors == {<<0, 10, 0>>}

\* the user edits widgets of the window: the scroll step, the hotkeys
\* check box, the channel, the meter colour
EditWidget ==
    /\ Idle /\ prefs # NULL
    /\ counts.edits < MaxEdits
    /\ \/ \E v \in ScrollSteps :
             /\ v # W.scroll_step_spin
             /\ prefs' = <<[W EXCEPT !.scroll_step_spin = v]>>
       \/ prefs' = <<[W EXCEPT !.enable_hotkeys_check = ~@]>>
       \/ \E j \in 1..2 :
             LET ch == <<CardChannels(GroupOf(W.card_combo))[j]>>
             IN  /\ ch # W.chan_combo
                 /\ prefs' = <<[W EXCEPT !.chan_combo = ch]>>
       \/ \E c \in MeterColors :
             /\ c # W.vol_meter_color_button
             /\ prefs' = <<[W EXCEPT !.vol_meter_color_button = c]>>
    /\ counts' = [counts EXCEPT !.edits = @ + 1]
    /\ reported' = {}
    /\ lastCall' = NoCall
    /\ UNCHANGED <<alive, booted, keyFile, cfgDir, cfgFile, installed, activeCard,
                   stack, grabbed, dialogVisible, runtime, lastGet>>


(***************************************************************************)
(* Commit and discard.                                                     *)
(***************************************************************************)
\* the key code on_ok_button_clicked stores for a hotkey label
LabelKeycode(label) ==
    LET a == gtk_accelerator_parse(label)
    IN  IF a.keysym # NoSymbol THEN XKeysymToKeycode(a.keysym) ELSE 0 - 1

LabelMods(label) == ModsToInt(gtk_accelerator_parse(label).mods)

\* on_ok_button_clicked, up to prefs_save: alsa_change as computed from
\* the stored card and channel
AlsaChange(kf, w) ==
    LET old_card == prefs_get_string(kf, "AlsaCard", NULLSTR)
        old_channel == IF old_card # NULLSTR
                       THEN prefs_get_channel(kf, old_card) ELSE NULLSTR
    IN  \/ (old_card # NULLSTR /\ old_card[1] # w.card_combo)
        \/ (old_channel # NULLSTR /\ old_channel[1] # w.chan_combo)

\* on_ok_button_clicked, up to prefs_save: the key file after every
\* prefs_set_* call, in the order of the calls
StoreWidgets(kf, w) ==
    LET k1  == prefs_set_string(kf, "SliderOrientation", w.slider_orientation_combo)
        k2  == prefs_set_boolean(k1, "DisplayTextVolume", w.vol_text_check)
        k3  == prefs_set_integer(k2, "TextVolumePosition", w.vol_pos_combo)
        k4  == prefs_set_boolean(k3, "DrawVolMeter", w.draw_vol_check)
        k5  == prefs_set_integer(k4, "VolMeterPos", w.vol_meter_pos_spin)
        k6  == prefs_set_vol_meter_colors(k5, w.vol_meter_color_button)
        k7  == prefs_set_string(k6, "AlsaCard", w.card_combo)
        k8  == prefs_set_channel(k7, w.card_combo, w.chan_combo)
        k9  == prefs_set_boolean(k8, "SystemTheme", w.system_theme)
        k10 == prefs_set_string(k9, "VolumeControlCommand", w.vol_control_entry)
        k11 == prefs_set_double(k10, "ScrollStep", w.scroll_step_spin)
        k12 == prefs_set_double(k11, "FineScrollStep", w.fine_scroll_step_spin)
        k13 == prefs_set_integer(k12, "MiddleClickAction", w.middle_click_combo)
        k14 == prefs_set_string(k13, "CustomCommand", w.custom_entry)
        k15 == prefs_set_boolean(k14, "NormalizeVolume", w.normalize_vol_check)
        k16 == prefs_set_boolean(k15, "EnableHotKeys", w.enable_hotkeys_check)
        k17 == prefs_set_integer(k16, "HotkeyVolumeStep", w.hotkey_vol_spin)
        k18 == prefs_set_integer(k17, "VolMuteKey", LabelKeycode(w.mute_hotkey_label))
        k19 == prefs_set_integer(k18, "VolMuteMods", LabelMods(w.mute_hotkey_label))
        k20 == prefs_set_integer(k19, "VolUpKey", LabelKeycode(w.up_hotkey_label))
        k21 == prefs_set_integer(k20, "VolUpMods", LabelMods(w.up_hotkey_label))
        k22 == prefs_set_integer(k21, "VolDownKey", LabelKeycode(w.down_hotkey_label))
        k23 == prefs_set_integer(k22, "VolDownMods", LabelMods(w.down_hotkey_label))
    IN  k23

\* on_ok_button_clicked: the prefs_set_* calls, <<function, key>>, in their
\* order
StoreCalls ==
    <<<<"prefs_set_string", "SliderOrientation">>, <<"prefs_set_boolean", "DisplayTextVolume">>,
      <<"prefs_set_integer", "TextVolumePosition">>, <<"prefs_set_boolean", "DrawVolMeter">>,
      <<"prefs_set_integer", "VolMeterPos">>, <<"prefs_set_vol_meter_colors", "VolMeterColor">>,
      <<"prefs_set_string", "AlsaCard">>, <<"prefs_set_channel", "Channel">>,
      <<"prefs_set_boolean", "SystemTheme">>, <<"prefs_set_string", "VolumeControlCommand">>,
      <<"prefs_set_double", "ScrollStep">>, <<"prefs_set_double", "FineScrollStep">>,
      <<"prefs_set_integer", "MiddleClickAction">>, <<"prefs_set_string", "CustomCommand">>,
      <<"prefs_set_boolean", "NormalizeVolume">>, <<"prefs_set_boolean", "EnableHotKeys">>,
      <<"prefs_set_integer", "HotkeyVolumeStep">>, <<"prefs_set_integer", "VolMuteKey">>,
      <<"prefs_set_integer", "VolMuteMods">>, <<"prefs_set_integer", "VolUpKey">>,
      <<"prefs_set_integer", "VolUpMods">>, <<"prefs_set_integer", "VolDownKey">>,
      <<"prefs_set_integer", "VolDownMods">>>>

\* (variant: the store is saved after it was applied)
on_ok_button_clicked_calls_save_last(applied) ==
    StoreCalls \o applied \o <<<<"prefs_save", "">>, <<"gtk_widget_destroy", "">>>>

\* on_ok_button_clicked: its calls in their order, applied being those of
\* apply_prefs
on_ok_button_clicked_calls(applied) ==
    StoreCalls \o <<<<"prefs_save", "">>>> \o applied
        \o <<<<"gtk_widget_destroy", "">>>>

\* on_ok_button_clicked (the OK button, or Return in the window): the
\* widgets are stored, the store is saved and applied, the window destroyed.
on_ok_button_clicked ==
    /\ Idle /\ prefs # NULL
    /\ counts.commits < MaxCommits
    /\ LET alsa_change == AlsaChange(keyFile, W)
           kf == StoreWidgets(keyFile, W)
       IN  /\ keyFile' = kf
           /\ \E io \in BOOLEAN : \E sv \in prefs_save(kf, cfgDir, cfgFile, io) :
                  /\ cfgFile' = sv.file
                  /\ reported' = sv.reported
           /\ \E c \in prefs_get_vol_meter_colors(kf) :
                  runtime' = [apply_prefs(kf, alsa_change, c) EXCEPT
                                 !.order = on_ok_button_clicked_calls(@)]
           /\ activeCard' = IF alsa_change THEN AlsaOpen(kf) ELSE activeCard
    /\ prefs' = NULL
    /\ counts' = [counts EXCEPT !.commits = @ + 1]
    /\ lastCall' = NoCall
    /\ UNCHANGED <<alive, booted, cfgDir, installed, stack, grabbed, dialogVisible,
                   lastGet>>

\* (variant: the widgets are stored before the window is destroyed)
on_cancel_button_clicked_stores ==
    /\ alive /\ stack = <<>> /\ prefs # NULL
    /\ keyFile' = StoreWidgets(keyFile, prefs[1])
    /\ prefs' = NULL
    /\ reported' = {}
    /\ lastCall' = NoCall
    /\ UNCHANGED <<alive, booted, cfgDir, cfgFile, installed, activeCard,
                   stack, grabbed, dialogVisible, runtime, lastGet, counts>>

\* on_cancel_button_clicked (the Cancel button, or Escape in the window)
on_cancel_button_clicked ==
    /\ Idle /\ prefs # NULL
    /\ prefs' = NULL
    /\ reported' = {}
    /\ lastCall' = NoCall
    /\ UNCHANGED <<alive, booted, keyFile, cfgDir, cfgFile, installed, activeCard,
                   stack, grabbed, dialogVisible, runtime, lastGet, counts>>


(***************************************************************************)
(* The hotkey capture: acquire_hotkey, blocked in gtk_dialog_run while the *)
(* dialog's handlers hotkey_pressed and hotkey_released run.  A frame of   *)
(* stack is one acquire_hotkey call: its action, whether its main loop     *)
(* still runs, the response it has got, and, as history, whether a key     *)
(* press was seen, how many ungrab calls were made since its grab and how  *)
(* many of them released a grab.                                           *)
(***************************************************************************)
WidgetNames == {"mute_eventbox", "up_eventbox", "down_eventbox", "card_combo"}

\* (variant: the last alternative taken for every other name)
ActionOf_fallthrough(widget_name) ==
    IF widget_name = "mute_eventbox" THEN 0
    ELSE IF widget_name = "up_eventbox" THEN 1
    ELSE 2

\* acquire_hotkey: the action a widget name stands for
ActionOf(widget_name) ==
    IF widget_name = "mute_eventbox" THEN 0
    ELSE IF widget_name = "up_eventbox" THEN 1
    ELSE IF widget_name = "down_eventbox" THEN 2
    ELSE 0 - 1

\* acquire_hotkey: the text the dialog shows for an action
Prompt(action) ==
    IF action = 0 THEN <<"Mute/Unmute">>
    ELSE IF action = 1 THEN <<"Volume Up">>
    ELSE <<"Volume Down">>

AbortText == <<"<Primary>", "c">>

\* (variant: the case of action 1 sets the mute label as well)
WriteHotkeyLabel_pasted(w, action) ==
    LET key_name == IF StrCaseEq(w.hotkey_key_label, <<"<Primary>", "c">>)
                    THEN <<"(None)">> ELSE w.hotkey_key_label
    IN  IF action = 0 THEN [w EXCEPT !.mute_hotkey_label = key_name]
        ELSE IF action = 1 THEN [w EXCEPT !.mute_hotkey_label = key_name,
                                          !.up_hotkey_label = key_name]
        ELSE IF action = 2 THEN [w EXCEPT !.down_hotkey_label = key_name]
        ELSE w

\* acquire_hotkey after GTK_RESPONSE_OK: the widgets with the key label's
\* text, or "(None)" for the abort combination, in the action's label
WriteHotkeyLabel(w, action) ==
    LET key_name == IF StrCaseEq(w.hotkey_key_label, AbortText)
                    THEN NoneText ELSE w.hotkey_key_label
    IN  IF action = 0 THEN [w EXCEPT !.mute_hotkey_label = key_name]
        ELSE IF action = 1 THEN [w EXCEPT !.up_hotkey_label = key_name]
        ELSE IF action = 2 THEN [w EXCEPT !.down_hotkey_label = key_name]
        ELSE w

Top == stack[Len(stack)]

Listening == alive /\ stack # <<>> /\ Top.running

\* run_response_handler of every gtk_dialog_run on the dialog: the
\* response is kept and the loop is quit
Respond(st, resp) ==
    [i \in 1..Len(st) |->
        IF st[i].running THEN [st[i] EXCEPT !.running = FALSE, !.resp = resp]
        ELSE st[i]]

\* run_unmap_handler: the loop is quit, the response is left as it is
Unmap(st) == [i \in 1..Len(st) |-> [st[i] EXCEPT !.running = FALSE]]

\* gtk_get_current_event_device() while an event of a kind ("button",
\* "key") is handled: the pointer or the keyboard.  Without WITH_GTK3 the
\* calls are gdk_keyboard_grab and gdk_keyboard_ungrab, on the keyboard.
EventDevice(kind) ==
    IF WITH_GTK3 /\ kind = "button" THEN "pointer" ELSE "keyboard"

\* (variant: the result of the grab not looked at)
GrabSuccess_unchecked(grab_ok, held) == TRUE

\* gdk_device_grab(...) == GDK_GRAB_SUCCESS.  grab_ok tells whether the X
\* server grants the device to a client that does not hold it; a client
\* that holds the grab is granted it again.
GrabSuccess(grab_ok, held) == grab_ok \/ held

\* (variant: the ungrab call left out)
gdk_device_ungrab_skipped(held, device) == held

\* gdk_device_ungrab: the devices grabbed after the call
gdk_device_ungrab(held, device) == held \ {device}

\* (variant: every response that ends the dialog taken for OK)
ResponseOk_any(resp) == resp # "NONE"

\* if (resp == GTK_RESPONSE_OK)
ResponseOk(resp) == resp = "OK"

\* an ungrab call, in the history of the frames: one more call, and one more
\* release when the grab was held
CountUngrab(st, held, after) ==
    [i \in 1..Len(st) |->
        [st[i] EXCEPT !.ungrabs = @ + 1,
                      !.releases = IF after # held THEN @ + 1 ELSE @]]

\* acquire_hotkey, up to and into gtk_dialog_run; the event handled is the
\* button press
acquire_hotkey(widget_name, grab_ok) ==
    LET action == ActionOf(widget_name)
        device == EventDevice("button")
        xgrant == IF grab_ok \/ device \in grabbed THEN "granted" ELSE "denied"
        call == [widget |-> widget_name, result |-> "invalid", grabTried |-> FALSE,
                 xgrant |-> "none", ungrabs |-> 0, releases |-> 0,
                 pressed |-> FALSE, keycode |-> 0, state |-> {}]
    IN  IF action < 0
        THEN /\ reported' = {"invalid_widget"}
             /\ lastCall' = call
             /\ UNCHANGED <<prefs, stack, grabbed, dialogVisible, counts>>
        ELSE /\ prefs' = <<[W EXCEPT !.hotkey_key_label = Prompt(action)]>>
             /\ IF GrabSuccess(grab_ok, device \in grabbed)
                THEN /\ grabbed' = grabbed \cup {device}
                     /\ dialogVisible' = TRUE
                     /\ stack' = Append(stack,
                                   [action |-> action, running |-> TRUE,
                                    resp |-> "NONE", pressed |-> FALSE,
                                    keycode |-> 0, state |-> {},
                                    ungrabs |-> 0, releases |-> 0])
                     /\ counts' = [counts EXCEPT !.captures = @ + 1]
                     /\ reported' = {}
                     /\ lastCall' = [call EXCEPT !.result = "listening",
                                                 !.grabTried = TRUE,
                                                 !.xgrant = xgrant]
                ELSE /\ reported' = {"grab"}
                     /\ dialogVisible' = FALSE
                     /\ stack' = Unmap(stack)
                     /\ lastCall' = [call EXCEPT !.result = "grabfail",
                                                 !.grabTried = TRUE,
                                                 !.xgrant = xgrant]
                     /\ UNCHANGED <<grabbed, counts>>

\* on_hotkey_button_click: only a double click of button 1 starts a capture
CaptureGesture(button, type) == button = 1 /\ type = "2BUTTON_PRESS"

\* on_hotkey_button_click on a widget of the preferences window.  While the
\* capture dialog runs it is modal, and GTK delivers no button press to the
\* preferences window.
on_hotkey_button_click ==
    /\ Idle /\ prefs # NULL
    /\ counts.captures < MaxCaptures
    /\ \E widget_name \in WidgetNames, button \in {1, 3},
          type \in {"BUTTON_PRESS", "2BUTTON_PRESS"}, grab_ok \in BOOLEAN :
         IF CaptureGesture(button, type)
         THEN acquire_hotkey(widget_name, grab_ok)
         ELSE /\ reported' = {}
              /\ lastCall' = NoCall
              /\ UNCHANGED <<prefs, stack, grabbed, dialogVisible, counts>>
    /\ UNCHANGED <<alive, booted, keyFile, cfgDir, cfgFile, installed, activeCard,
                   runtime, lastGet>>

\* hotkey_pressed: the key label shows the accelerator of the event.  The
\* handler returns FALSE, so the dialog's own key bindings see the event
\* next: a plain Escape closes the dialog (GTK_RESPONSE_DELETE_EVENT).
KeyLabelOf(kc, state) ==
    LET t == TranslateKeyboardState(kc, state)
    IN  gtk_accelerator_name(t.keyval, (state \ t.consumed) \cap DefaultModMask)

ClosesDialog(kc, state) ==
    TranslateKeyboardState(kc, state).keyval = "Escape"
        /\ state \cap DefaultModMask = {}

\* the modifier states of the key events the user produces
PressStates == {{}, {"Control"}, {"Shift", "Mod2"}}

\* the keys the user presses
PressKeys == {9, 54, 208}

\* the key press events the user produces: <<hardware keycode, state>>
PressEvents ==
    {e \in PressKeys \X PressStates :
        \/ e[2] = {} /\ e[1] = 9
        \/ e[2] = {"Control"} /\ e[1] \in {54, 208}
        \/ e[2] = {"Shift", "Mod2"} /\ e[1] = 54}

\* (variant: only the first key press of a session sets the key label)
hotkey_pressed_first_only ==
    /\ alive /\ stack # <<>> /\ stack[Len(stack)].running
    /\ \E e \in PressEvents :
         LET kc == e[1]
             state == e[2]
         IN  /\ prefs' = IF stack[Len(stack)].pressed THEN prefs
                         ELSE <<[prefs[1] EXCEPT !.hotkey_key_label =
                                    gtk_accelerator_name(
                                        TranslateKeyboardState(kc, state).keyval,
                                        (state \ TranslateKeyboardState(kc, state).consumed)
                                            \cap DefaultModMask)]>>
             /\ stack' = [i \in 1..Len(stack) |->
                             [stack[i] EXCEPT !.pressed = TRUE, !.keycode = kc,
                                              !.state = state,
                                              !.running = IF KeySyms(kc)[1] = "Escape" /\ state \cap DefaultModMask = {}
                                                          THEN FALSE ELSE @,
                                              !.resp = IF KeySyms(kc)[1] = "Escape" /\ state \cap DefaultModMask = {} /\ stack[i].running
                                                       THEN "DELETE_EVENT" ELSE @]]
    /\ reported' = {}
    /\ lastCall' = NoCall
    /\ UNCHANGED <<alive, booted, keyFile, cfgDir, cfgFile, installed, activeCard,
                   grabbed, dialogVisible, runtime, lastGet, counts>>

\* hotkey_pressed; keycode and state of the frames tell the latest event
hotkey_pressed ==
    /\ Listening
    /\ \E e \in PressEvents :
         LET kc == e[1]
             state == e[2]
         IN  /\ prefs' = <<[W EXCEPT !.hotkey_key_label = KeyLabelOf(kc, state)]>>
             /\ LET st == [i \in 1..Len(stack) |->
                             [stack[i] EXCEPT !.pressed = TRUE, !.keycode = kc,
                                              !.state = state]]
                IN  stack' = IF ClosesDialog(kc, state)
                             THEN Respond(st, "DELETE_EVENT") ELSE st
    /\ reported' = {}
    /\ lastCall' = NoCall
    /\ UNCHANGED <<alive, booted, keyFile, cfgDir, cfgFile, installed, activeCard,
                   grabbed, dialogVisible, runtime, lastGet, counts>>

\* (variant: hotkey_released leaves the ungrab to acquire_hotkey)
hotkey_released_no_ungrab ==
    /\ Listening
    /\ stack' = Respond(stack, "OK")
    /\ reported' = {}
    /\ lastCall' = NoCall
    /\ UNCHANGED <<alive, booted, keyFile, cfgDir, cfgFile, installed, activeCard,
                   prefs, grabbed, dialogVisible, runtime, lastGet, counts>>

\* hotkey_released: the device of the key event is ungrabbed and the dialog
\* responds OK
hotkey_released ==
    /\ Listening
    /\ grabbed' = gdk_device_ungrab(grabbed, EventDevice("key"))
    /\ stack' = Respond(CountUngrab(stack, grabbed, grabbed'), "OK")
    /\ reported' = {}
    /\ lastCall' = NoCall
    /\ UNCHANGED <<alive, booted, keyFile, cfgDir, cfgFile, installed, activeCard,
                   prefs, dialogVisible, runtime, lastGet, counts>>

\* the dialog is closed from outside (the window manager's close button)
DialogClosed ==
    /\ Listening
    /\ stack' = Respond(stack, "DELETE_EVENT")
    /\ reported' = {}
    /\ lastCall' = NoCall
    /\ UNCHANGED <<alive, booted, keyFile, cfgDir, cfgFile, installed, activeCard,
                   prefs, grabbed, dialogVisible, runtime, lastGet, counts>>

\* (variant: acquire_hotkey returns without its ungrab)
acquire_hotkey_return_no_ungrab ==
    /\ alive /\ stack # <<>> /\ ~stack[Len(stack)].running
    /\ grabbed' = grabbed
    /\ prefs' = IF stack[Len(stack)].resp = "OK"
                THEN <<WriteHotkeyLabel(prefs[1], stack[Len(stack)].action)>> ELSE prefs
    /\ dialogVisible' = FALSE
    /\ stack' = Unmap(SubSeq(stack, 1, Len(stack) - 1))
    /\ lastCall' = NoCall
    /\ reported' = {}
    /\ UNCHANGED <<alive, booted, keyFile, cfgDir, cfgFile, installed, activeCard,
                   runtime, lastGet, counts>>

\* acquire_hotkey from the return of gtk_dialog_run: the device of the
\* event handled, the button press again, is ungrabbed, on GTK_RESPONSE_OK
\* the action's label is set, the dialog is hidden.
acquire_hotkey_return ==
    /\ alive /\ stack # <<>> /\ ~Top.running
    /\ grabbed' = gdk_device_ungrab(grabbed, EventDevice("button"))
    /\ prefs' = IF ResponseOk(Top.resp)
                THEN <<WriteHotkeyLabel(W, Top.action)>> ELSE prefs
    /\ dialogVisible' = FALSE
    /\ stack' = Unmap(SubSeq(stack, 1, Len(stack) - 1))
    /\ LET t == CountUngrab(<<Top>>, grabbed, grabbed')[1]
       IN  lastCall' = [widget |-> CHOOSE n \in WidgetNames : ActionOf(n) = t.action,
                        result |-> IF t.resp = "OK" THEN "ok" ELSE "cancel",
                        grabTried |-> TRUE, xgrant |-> "granted",
                        ungrabs |-> t.ungrabs, releases |-> t.releases,
                        pressed |-> t.pressed, keycode |-> t.keycode,
                        state |-> t.state]
    /\ reported' = {}
    /\ UNCHANGED <<alive, booted, keyFile, cfgDir, cfgFile, installed, activeCard,
                   runtime, lastGet, counts>>

\* on_hotkey_button_click delivered while the capture dialog runs, as a
\* caller that does not go through GTK's modal event delivery can do
on_hotkey_button_click_listening ==
    /\ Listening /\ prefs # NULL
    /\ Len(stack) < MaxDepth
    /\ counts.captures < MaxCaptures
    /\ \E widget_name \in WidgetNames, grab_ok \in BOOLEAN :
         acquire_hotkey(widget_name, grab_ok)
    /\ UNCHANGED <<alive, booted, keyFile, cfgDir, cfgFile, installed, activeCard,
                   runtime, lastGet>>

(***************************************************************************)
(* The program as it runs.                                                 *)
(***************************************************************************)
Next ==
    \/ Main
    \/ NullStoreCrash
    \/ OpenPrefs
    \/ \E i \in 1..Len(CardNames) : on_card_changed(i)
    \/ EditWidget
    \/ on_ok_button_clicked
    \/ on_cancel_button_clicked
    \/ on_hotkey_button_click
    \/ hotkey_pressed
    \/ hotkey_released
    \/ DialogClosed
    \/ acquire_hotkey_return

Spec == Init /\ [][Next]_vars

\* the program when capture requests are not held back while a capture runs
NextReentrant == Next \/ on_hotkey_button_click_listening

SpecReentrant == Init /\ [][NextReentrant]_vars

\* The capture machine alone: the preferences window is opened and
\* discarded, its widgets are not edited and it is not committed.  Every
\* capture session gets its key release or its dismissal in the end, and
\* acquire_hotkey goes on once gtk_dialog_run has returned.
NextCapture ==
    \/ Main
    \/ OpenPrefs
    \/ on_cancel_button_clicked
    \/ on_hotkey_button_click
    \/ hotkey_pressed
    \/ hotkey_released
    \/ DialogClosed
    \/ acquire_hotkey_return

SpecCaptureFair ==
    /\ Init /\ [][NextCapture]_vars
    /\ WF_vars(hotkey_released \/ DialogClosed)
    /\ WF_vars(acquire_hotkey_return)


(***************************************************************************)
(* The store on its own: its operations called in any order, as the rest   *)
(* of the program may call them.  lastGet tells the call of the latest     *)
(* step (op) and, as history in chain, the latest prefs_set_* call with    *)
(* the prefs_save and prefs_load calls that followed it.                   *)
(***************************************************************************)
StoreKeys == {"ScrollStep", "EnableHotKeys", "SliderOrientation", "NoSuchKey"}

\* the defaults the callers pass, per type
GetDefaults(type) ==
    CASE type = "boolean" -> {TRUE, FALSE}
      [] type = "integer" -> {5, 0 - 1}
      [] type = "double" -> {50}
      [] type = "string" -> {NULLSTR, Str(<<"vertical">>)}

GetResult(type, kf, key, def) ==
    CASE type = "boolean" -> prefs_get_boolean(kf, key, def)
      [] type = "integer" -> prefs_get_integer(kf, key, def)
      [] type = "double" -> prefs_get_double(kf, key, def)
      [] type = "string" -> prefs_get_string(kf, key, def)

\* the prefs_set_* calls made: [type, key, val], key being the card for
\* prefs_set_channel
StoreWrites ==
    {[type |-> "integer", key |-> "ScrollStep", val |-> 10],
     [type |-> "boolean", key |-> "EnableHotKeys", val |-> TRUE],
     [type |-> "string", key |-> "SliderOrientation", val |-> <<"horizontal">>],
     [type |-> "double", key |-> "ScrollStep", val |-> 25],
     [type |-> "string", key |-> "VolumeControlCommand", val |-> <<"mymixer">>],
     [type |-> "string", key |-> "VolMeterColor", val |-> <<"red">>],
     [type |-> "channel", key |-> "hw1", val |-> <<"Master">>],
     [type |-> "colors", key |-> "VolMeterColor", val |-> <<5>>],
     [type |-> "colors", key |-> "VolMeterColor", val |-> <<20, 0 - 5, 5>>],
     [type |-> "colors", key |-> "VolMeterColor", val |-> <<1, 2, 3, 4>>],
     [type |-> "colors", key |-> "VolMeterColor", val |-> <<>>]}

SetResult(kf, w) ==
    CASE w.type = "boolean" -> prefs_set_boolean(kf, w.key, w.val)
      [] w.type = "integer" -> prefs_set_integer(kf, w.key, w.val)
      [] w.type = "double" -> prefs_set_double(kf, w.key, w.val)
      [] w.type = "string" -> prefs_set_string(kf, w.key, w.val)
      [] w.type = "channel" -> prefs_set_channel(kf, <<w.key>>, w.val)
      [] w.type = "colors" -> prefs_set_vol_meter_colors(kf, w.val)

\* the value a getter of the write's type returns for the value written
Written(w) == IF w.type = "string" THEN Str(w.val) ELSE w.val

\* the sets of programs `which` may find
InstalledSets ==
    {{}, {"alsamixergui"}, {"xfce4-mixer", "alsamixergui"},
     {"pavucontrol", "gnome-alsamixer"}}

storeOnlyUnchanged ==
    UNCHANGED <<alive, activeCard, prefs, stack, grabbed, dialogVisible,
                runtime, lastCall>>

\* prefs_load()
StoreLoad ==
    /\ alive
    /\ LET l == prefs_load(cfgFile)
       IN  /\ keyFile' = l.kf
           /\ reported' = l.reported
    /\ booted' = TRUE
    /\ lastGet' = [NoGet EXCEPT
                     !.op = "load",
                     !.chain = IF lastGet.chain.ops \in {<<"set">>, <<"set", "save">>}
                               THEN [lastGet.chain EXCEPT !.ops = Append(@, "load")]
                               ELSE NoChain]
    /\ UNCHANGED <<cfgDir, cfgFile, installed, counts>>
    /\ storeOnlyUnchanged

\* prefs_get_boolean, prefs_get_integer, prefs_get_double, prefs_get_string
StoreGet ==
    /\ alive /\ booted
    /\ \E type \in {"boolean", "integer", "double", "string"}, key \in StoreKeys :
         \E def \in GetDefaults(type) :
            lastGet' = [NoGet EXCEPT
                          !.op = "get", !.type = type, !.key = key, !.def = def,
                          !.ret = GetResult(type, keyFile, key, def),
                          !.found = KfHas(keyFile, PN, key),
                          !.loaded = keyFile # NULL,
                          !.chain = IF /\ lastGet.chain.type = type
                                       /\ lastGet.chain.key = key
                                    THEN lastGet.chain ELSE NoChain]
    /\ reported' = {}
    /\ UNCHANGED <<booted, keyFile, cfgDir, cfgFile, installed, counts>>
    /\ storeOnlyUnchanged

\* prefs_get_vol_meter_colors()
StoreGetColors ==
    /\ alive /\ booted
    /\ \E c \in prefs_get_vol_meter_colors(keyFile) :
         lastGet' = [NoGet EXCEPT !.op = "colors", !.ret = c,
                                  !.loaded = keyFile # NULL]
    /\ reported' = {}
    /\ UNCHANGED <<booted, keyFile, cfgDir, cfgFile, installed, counts>>
    /\ storeOnlyUnchanged

\* prefs_get_vol_command(), inst being the programs `which` finds at the
\* time of the call
StoreGetVolCommand ==
    /\ alive /\ booted
    /\ \E inst \in InstalledSets :
         lastGet' = [NoGet EXCEPT !.op = "volcmd", !.inst = inst,
                                  !.ret = prefs_get_vol_command(keyFile, inst),
                                  !.loaded = keyFile # NULL]
    /\ reported' = {}
    /\ UNCHANGED <<booted, keyFile, cfgDir, cfgFile, installed, counts>>
    /\ storeOnlyUnchanged

\* (variant: a setter that writes the file through)
StoreSet_write_through ==
    /\ alive /\ booted
    /\ counts.edits < MaxWrites
    /\ \E w \in StoreWrites :
         /\ keyFile' = SetResult(keyFile, w)
         /\ cfgFile' = IF keyFile' = NULL THEN cfgFile
                       ELSE [state |-> "valid", kv |-> keyFile'[1]]
         /\ lastGet' = [NoGet EXCEPT
                          !.op = "set",
                          !.chain = [ops |-> <<"set">>, type |-> w.type,
                                     key |-> w.key, val |-> Written(w)]]
    /\ counts' = [counts EXCEPT !.edits = @ + 1]
    /\ reported' = {}
    /\ UNCHANGED <<booted, cfgDir, installed>>
    /\ storeOnlyUnchanged

\* prefs_set_boolean, prefs_set_integer, prefs_set_double, prefs_set_string,
\* prefs_set_channel, prefs_set_vol_meter_colors
StoreSet ==
    /\ alive /\ booted
    /\ counts.edits < MaxWrites
    /\ \E w \in StoreWrites :
         /\ keyFile' = SetResult(keyFile, w)
         /\ lastGet' = [NoGet EXCEPT
                          !.op = "set",
                          !.chain = [ops |-> <<"set">>, type |-> w.type,
                                     key |-> w.key, val |-> Written(w)]]
    /\ counts' = [counts EXCEPT !.edits = @ + 1]
    /\ reported' = {}
    /\ UNCHANGED <<booted, cfgDir, cfgFile, installed>>
    /\ storeOnlyUnchanged

\* prefs_save()
StoreSave ==
    /\ alive /\ booted
    /\ \E io \in BOOLEAN : \E sv \in prefs_save(keyFile, cfgDir, cfgFile, io) :
         /\ cfgFile' = sv.file
         /\ reported' = sv.reported
         /\ lastGet' = [NoGet EXCEPT
                          !.op = "save", !.io = io,
                          !.loaded = keyFile # NULL,
                          !.chain = IF lastGet.chain.ops = <<"set">> /\ sv.reported = {}
                                    THEN [lastGet.chain EXCEPT !.ops = <<"set", "save">>]
                                    ELSE NoChain]
    /\ UNCHANGED <<booted, keyFile, cfgDir, installed, counts>>
    /\ storeOnlyUnchanged

\* prefs_ensure_save_dir()
StoreEnsureDir ==
    /\ alive
    /\ \E mk \in BOOLEAN :
         LET e == prefs_ensure_save_dir(cfgDir, mk)
         IN  /\ cfgDir' = e.dir
             /\ reported' = e.reported
             /\ lastGet' = [NoGet EXCEPT !.op = "ensure", !.io = mk,
                                         !.chain = lastGet.chain]
    /\ UNCHANGED <<booted, keyFile, cfgFile, installed, counts>>
    /\ storeOnlyUnchanged

NextStore ==
    \/ StoreLoad
    \/ StoreGet
    \/ StoreGetColors
    \/ StoreGetVolCommand
    \/ StoreSet
    \/ StoreSave
    \/ StoreEnsureDir
    \/ NullStoreCrash

SpecStore == Init /\ [][NextStore]_vars


(***************************************************************************)
(* Properties.                                                             *)
(***************************************************************************)
\* the three staged hotkey fields of a preferences window
Labels(p) ==
    IF p = NULL THEN <<>>
    ELSE <<p[1].mute_hotkey_label, p[1].up_hotkey_label, p[1].down_hotkey_label>>

ValidWidgets == {"mute_eventbox", "up_eventbox", "down_eventbox"}

HotkeyKey(a) ==
    IF a = 0 THEN "VolMuteKey" ELSE IF a = 1 THEN "VolUpKey" ELSE "VolDownKey"

Returned == lastCall.result \in {"ok", "cancel", "grabfail"}

\* C1: whenever acquire_hotkey has returned (after an OK response, after
\* any other response, or after a failed grab) and no call of it is in
\* progress, the process does not hold the keyboard grab.
C1_GrabReleasedOnReturn == (Returned \/ stack = <<>>) => grabbed = {}

C1_Witness == lastCall.result = "cancel" /\ stack = <<>> /\ grabbed = {}

\* C2 as claimed: a capture session that ends with a key release makes
\* exactly one ungrab call between its grab and the return of
\* acquire_hotkey.
C2_ExactlyOneUngrab == lastCall.result = "ok" => lastCall.ungrabs = 1

\* C2 as amended: in a capture session that ends with a key release the
\* grab goes from held to released exactly once, and ungrab is called
\* exactly twice, by hotkey_released and by acquire_hotkey after
\* gtk_dialog_run.
C2_ReleasedOnceUngrabbedTwice ==
    lastCall.result = "ok" => (lastCall.releases = 1 /\ lastCall.ungrabs = 2)

C2_Witness == lastCall.result = "ok" /\ lastCall.pressed /\ lastCall.ungrabs = 2

\* C3: a session commits (its dialog responds OK) only after a key press
\* was seen in that session: a key release that comes before any key
\* press does not commit.
C3_CommitOnlyAfterPress ==
    /\ \A i \in 1..Len(stack) : stack[i].resp = "OK" => stack[i].pressed
    /\ lastCall.result = "ok" => lastCall.pressed

C5_GrabDenied ==
    [][lastCall'.xgrant = "denied" =>
         /\ lastCall'.result = "grabfail"
         /\ reported' = {"grab"}
         /\ stack' = <<>>
         /\ grabbed' = {}
         /\ Labels(prefs') = Labels(prefs)
         /\ UNCHANGED storeVars]_vars

C5_Witness ==
    lastCall.result = "grabfail" /\ lastCall.xgrant = "denied" /\ reported = {"grab"}

\* C6: a capture request for a widget name that is none of mute_eventbox,
\* up_eventbox, down_eventbox is refused with a reported error before any
\* grab is tried, and no widget of the window (staged field or capture
\* label) changes.
C6_InvalidWidgetRejected ==
    [][(lastCall'.result # "none" /\ lastCall'.widget \notin ValidWidgets) =>
         /\ lastCall'.result = "invalid"
         /\ ~lastCall'.grabTried
         /\ reported' = {"invalid_widget"}
         /\ UNCHANGED <<prefs, stack, grabbed, dialogVisible>>]_vars

C6_Witness ==
    /\ lastCall.result = "invalid" /\ lastCall.widget = "card_combo"
    /\ reported = {"invalid_widget"} /\ grabbed = {}

\* C7: when the dialog ends with a response other than OK, the grab is
\* released and none of the three staged hotkey fields, nor the store, is
\* written; the candidate is dropped: a session that has seen no key press
\* shows the prompt of its action, not an earlier candidate.
C7_CancelWritesNothing ==
    /\ [](Listening /\ ~Top.pressed => W.hotkey_key_label = Prompt(Top.action))
    /\ [][lastCall'.result = "cancel" =>
            /\ grabbed' = {}
            /\ Labels(prefs') = Labels(prefs)
            /\ UNCHANGED storeVars]_vars

C7_Witness ==
    /\ lastCall.result = "cancel" /\ lastCall.pressed /\ grabbed = {}
    /\ prefs # NULL /\ W.hotkey_key_label = <<"c">>
    /\ \A a \in 1..3 : Labels(prefs)[a] # <<"c">>

\* C8: when a capture commits with the abort combination Control+C as its
\* candidate, the staged field of the action becomes "(None)" and not the
\* combination; and when the window is committed next, the store then
\* holds key code -1 for that action.
C8_AbortClearsBinding ==
    [][/\ (lastCall'.result = "ok" /\ StrCaseEq(W.hotkey_key_label, AbortText)) =>
             Labels(prefs')[ActionOf(lastCall'.widget) + 1] = NoneText
       /\ (/\ lastCall.result = "ok"
           /\ StrCaseEq(W.hotkey_key_label, AbortText)
           /\ counts'.commits # counts.commits) =>
             /\ KfHas(keyFile', PN, HotkeyKey(ActionOf(lastCall.widget)))
             /\ keyFile'[1][<<PN, HotkeyKey(ActionOf(lastCall.widget))>>]
                    = <<"-", "1">>]_vars

\* C9: a committed capture for an action writes the candidate into that
\* action's staged field only: the other two fields and the store are
\* unchanged; and while a preferences window is open the store changes
\* only in the step that commits the window.
C9_CaptureWritesOneField ==
    [][/\ lastCall'.result = "ok" =>
             /\ UNCHANGED storeVars
             /\ \A a \in 0..2 :
                  Labels(prefs')[a + 1] =
                     IF a # ActionOf(lastCall'.widget) THEN Labels(prefs)[a + 1]
                     ELSE IF StrCaseEq(W.hotkey_key_label, AbortText) THEN NoneText
                     ELSE W.hotkey_key_label
       /\ (prefs # NULL /\ <<keyFile, cfgDir, cfgFile>>' # <<keyFile, cfgDir, cfgFile>>) =>
             (counts'.commits = counts.commits + 1 /\ prefs' = NULL)]_vars

C9_Witness ==
    /\ lastCall.result = "ok" /\ lastCall.widget = "up_eventbox"
    /\ prefs # NULL
    /\ W.up_hotkey_label = <<"c">> /\ W.mute_hotkey_label # <<"c">>
    /\ W.down_hotkey_label # <<"c">>

\* C10: a getter of any type called for a key that is not in the store,
\* also when the store is not there because the load failed, returns the
\* default it was given.
C10_AbsentGivesDefault ==
    (lastGet.type # "none" /\ ~lastGet.found) => lastGet.ret = lastGet.def

\* C11: a getter called right after a setter of its type wrote its key
\* returns the value written, also when the load before had failed; any
\* other read returns what the store holds for the key or the default given.
C11_SetThenGet ==
    lastGet.op = "get" =>
        IF lastGet.chain.ops = <<"set">>
        THEN lastGet.ret = lastGet.chain.val
        ELSE lastGet.found \/ lastGet.ret = lastGet.def

\* C12: a value written by a setter, saved by a prefs_save that reported no
\* error and loaded again is the value the getter of its type then returns.
C12_RoundTrip ==
    (lastGet.op = "get" /\ lastGet.chain.ops = <<"set", "save", "load">>) =>
        lastGet.ret = lastGet.chain.val

\* C13: prefs_save, when the file system takes the write, leaves the file
\* holding the store, also when the directory was missing; and when the
\* directory cannot be made this is reported and the process goes on.
C13_SaveCreatesDir ==
    /\ (lastGet.op = "save" /\ lastGet.io /\ lastGet.loaded) =>
          (cfgFile.state = "valid" /\ cfgFile.kv = keyFile[1])
    /\ (lastGet.op = "ensure" /\ cfgDir # "dir") => (reported # {} /\ alive)

\* C14: a call of a setter (typed, channel or colour list) leaves the
\* configuration file and its directory as they were.
C14_SettersLeaveFile ==
    [][lastGet'.op = "set" => (cfgFile' = cfgFile /\ cfgDir' = cfgDir)]_vars

C14_Witness ==
    /\ lastGet.op = "set" /\ lastGet.chain.key = "ScrollStep"
    /\ KfHas(keyFile, PN, "ScrollStep")
    /\ keyFile[1][<<PN, "ScrollStep">>] = <<"1", "0">>
    /\ cfgFile.state = "absent"

\* C15: after prefs_load the store holds exactly the content of the file,
\* or the built-in defaults when there is no file; when the file does not
\* parse, nothing at all is in the store.  No value of the store before the
\* load remains.
C15_LoadReplaces ==
    lastGet.op = "load" =>
        CASE cfgFile.state = "valid" -> keyFile = <<cfgFile.kv>>
          [] cfgFile.state = "absent" -> keyFile = <<DEFAULT_PREFS>>
          [] OTHER -> keyFile = NULL \/ keyFile = <<EmptyKv>>

C15_Witness ==
    /\ lastGet.op = "load" /\ lastGet.chain.ops = <<"set", "load">>
    /\ lastGet.chain.key = "ScrollStep" /\ lastGet.chain.val = 10
    /\ cfgFile.state = "absent"
    /\ prefs_get_integer(keyFile, "ScrollStep", 0) = 5

\* C16: after prefs_load with no configuration file the getters return the
\* built-in values: SliderOrientation vertical, DisplayTextVolume true,
\* ScrollStep 5, FineScrollStep 1, HotkeyVolumeStep 1, MiddleClickAction 0,
\* the three hotkey key codes -1, AlsaCard default, SystemTheme false.
C16_BuiltInDefaults ==
    (lastGet.op = "load" /\ cfgFile.state = "absent") =>
        /\ prefs_get_string(keyFile, "SliderOrientation", NULLSTR) = Str(<<"vertical">>)
        /\ prefs_get_boolean(keyFile, "DisplayTextVolume", FALSE) = TRUE
        /\ prefs_get_integer(keyFile, "ScrollStep", 0) = 5
        /\ prefs_get_integer(keyFile, "FineScrollStep", 0) = 1
        /\ prefs_get_integer(keyFile, "HotkeyVolumeStep", 0) = 1
        /\ prefs_get_integer(keyFile, "MiddleClickAction", 7) = 0
        /\ prefs_get_integer(keyFile, "VolMuteKey", 0) = 0 - 1
        /\ prefs_get_integer(keyFile, "VolUpKey", 0) = 0 - 1
        /\ prefs_get_integer(keyFile, "VolDownKey", 0) = 0 - 1
        /\ prefs_get_string(keyFile, "AlsaCard", NULLSTR) = Str(<<"default">>)
        /\ prefs_get_boolean(keyFile, "SystemTheme", TRUE) = FALSE

C16_Witness ==
    /\ lastGet.op = "load" /\ cfgFile.state = "absent" /\ keyFile # NULL
    /\ cfgDir = "missing"

\* a colour component (in tenths) within [0.0, 1.0]
InUnit(c) == c # NaN /\ 0 <= c /\ c <= 10

\* C17: prefs_get_vol_meter_colors returns three values, each within
\* [0.0, 1.0], whatever list is stored; and the built-in triple when no
\* list is stored or the stored text is no list of numbers.
C17_ColorsInRange ==
    lastGet.op = "colors" =>
        /\ Len(lastGet.ret) = 3
        /\ \A i \in 1..3 : InUnit(lastGet.ret[i])
        /\ (\/ ~KfHas(keyFile, PN, "VolMeterColor")
            \/ ~ParseDoubleList(keyFile[1][<<PN, "VolMeterColor">>]).ok)
              => lastGet.ret = <<9, 4, 4>>

\* the programs probed, in the order probed
ProbeOrder == <<"pavucontrol", "gnome-alsamixer", "xfce4-mixer", "alsamixergui">>

\* C18: prefs_get_vol_command returns the stored VolumeControlCommand when
\* there is one; else the first of pavucontrol, gnome-alsamixer,
\* xfce4-mixer, alsamixergui that is found; else NULL.
C18_VolCommand ==
    lastGet.op = "volcmd" =>
        IF KfHas(keyFile, PN, "VolumeControlCommand")
        THEN lastGet.ret = Str(keyFile[1][<<PN, "VolumeControlCommand">>])
        ELSE IF \A i \in 1..4 : ProbeOrder[i] \notin lastGet.inst
        THEN lastGet.ret = NULLSTR
        ELSE \E i \in 1..4 :
                /\ ProbeOrder[i] \in lastGet.inst
                /\ \A j \in 1..(i - 1) : ProbeOrder[j] \notin lastGet.inst
                /\ lastGet.ret = Str(<<ProbeOrder[i]>>)

C18_Witness ==
    /\ lastGet.op = "volcmd" /\ lastGet.loaded
    /\ ~KfHas(keyFile, PN, "VolumeControlCommand")
    /\ lastGet.inst = {"xfce4-mixer", "alsamixergui"}
    /\ lastGet.ret = Str(<<"xfce4-mixer">>)

\* the window shows what the store holds, but for the meter colour
OnlyColorDiffers ==
    /\ prefs # NULL /\ keyFile # NULL
    /\ W.vol_meter_color_button \notin prefs_get_vol_meter_colors(keyFile)
    /\ \E c \in prefs_get_vol_meter_colors(keyFile) :
          [W EXCEPT !.vol_meter_color_button = c, !.hotkey_key_label = <<>>]
              = create_prefs_window(keyFile, installed, activeCard, c)

\* C19: a commit of a window in which only the meter colour differs from
\* the store sets the meter colour and refreshes the icons and the volume
\* text, and neither reinitialises ALSA nor grabs the hotkeys anew.
C19_ColorOnlyCommit ==
    [][(counts'.commits # counts.commits /\ OnlyColorDiffers) =>
          /\ {"set_vol_meter_color", "update_status_icons", "update_vol_text"}
                \subseteq runtime'.calls
          /\ "do_alsa_reinit" \notin runtime'.calls
          /\ "grab_keys" \notin runtime'.calls]_vars

\* the card or the channel selected in the window differs from the stored
\* one (from the one the window shows for an empty store, when none is
\* stored)
AudioDiffers ==
    LET sc == prefs_get_string(keyFile, "AlsaCard", NULLSTR)
        sch == prefs_get_channel(keyFile, Str(W.card_combo))
    IN  \/ IF sc # NULLSTR THEN sc[1] # W.card_combo
           ELSE W.card_combo # activeCard[1]
        \/ IF sch # NULLSTR THEN sch[1] # W.chan_combo
           ELSE W.chan_combo # <<CardChannels(GroupOf(W.card_combo))[1]>>

\* C20: a commit reinitialises ALSA exactly when the card or the channel
\* selected differs from the stored one, also when no card or no channel
\* was stored.
C20_ReinitIffAudioDiffers ==
    [][(counts'.commits # counts.commits /\ keyFile # NULL) =>
          (("do_alsa_reinit" \in runtime'.calls) <=> AudioDiffers)]_vars

\* C21: while a preferences window is open, every step other than the commit
\* (a widget edit, a card change, a step of a hotkey capture, the Cancel
\* button or Escape) leaves the key file in memory and the file on disk as
\* they are; so a discarded window leaves both as they were when it opened.
C21_StagingLeavesStore ==
    [][(prefs # NULL /\ counts'.commits = counts.commits)
          => (keyFile' = keyFile /\ cfgFile' = cfgFile /\ cfgDir' = cfgDir)]_vars

\* a window with an edited widget was discarded
C21_Witness ==
    /\ prefs = NULL /\ booted /\ alive
    /\ counts.opens >= 1 /\ counts.edits = 1 /\ counts.commits = 0
    /\ stack = <<>>

\* the key file holds value text t for key k of group g
Holds(kf, g, k, t) == KfHas(kf, g, k) /\ kf[1][<<g, k>>] = t

\* every value staged in the widgets w is in the key file kf
StagedInStore(kf, w) ==
    /\ Holds(kf, PN, "SliderOrientation", w.slider_orientation_combo)
    /\ Holds(kf, PN, "DisplayTextVolume", BoolToText(w.vol_text_check))
    /\ Holds(kf, PN, "TextVolumePosition", IntToText(w.vol_pos_combo))
    /\ Holds(kf, PN, "DrawVolMeter", BoolToText(w.draw_vol_check))
    /\ Holds(kf, PN, "VolMeterPos", IntToText(w.vol_meter_pos_spin))
    /\ Holds(kf, PN, "VolMeterColor", DoubleListToText(w.vol_meter_color_button))
    /\ Holds(kf, PN, "AlsaCard", w.card_combo)
    /\ Holds(kf, GroupOf(w.card_combo), "Channel", w.chan_combo)
    /\ Holds(kf, PN, "SystemTheme", BoolToText(w.system_theme))
    /\ Holds(kf, PN, "VolumeControlCommand", w.vol_control_entry)
    /\ Holds(kf, PN, "ScrollStep", DoubleToText(w.scroll_step_spin))
    /\ Holds(kf, PN, "FineScrollStep", DoubleToText(w.fine_scroll_step_spin))
    /\ Holds(kf, PN, "MiddleClickAction", IntToText(w.middle_click_combo))
    /\ Holds(kf, PN, "CustomCommand", w.custom_entry)
    /\ Holds(kf, PN, "NormalizeVolume", BoolToText(w.normalize_vol_check))
    /\ Holds(kf, PN, "EnableHotKeys", BoolToText(w.enable_hotkeys_check))
    /\ Holds(kf, PN, "HotkeyVolumeStep", IntToText(w.hotkey_vol_spin))

\* the step is a commit: on_ok_button_clicked ran
CommitStep == prefs # NULL /\ counts'.commits = counts.commits + 1

\* C22: when the save of a commit fails (the file on disk is not written),
\* the error is reported, the key file in memory holds every staged value,
\* and the running process was given the preferences read from that key file.
C22_FailedSaveStillApplies ==
    [][(CommitStep /\ cfgFile' = cfgFile)
          => /\ "save" \in reported'
             /\ StagedInStore(keyFile', W)
             /\ \E c \in prefs_get_vol_meter_colors(keyFile') :
                    [runtime' EXCEPT !.order = <<>>] =
                        [apply_prefs(keyFile', runtime'.alsa_reinit, c)
                            EXCEPT !.order = <<>>]]_vars

\* the text of a hotkey label is no accelerator: gtk_accelerator_parse
\* gives key symbol 0 for it
Undecodable(label) == gtk_accelerator_parse(label).keysym = NoSymbol

\* C23: after a commit, every action whose hotkey label text cannot be
\* decoded as an accelerator has key code -1 in the store.
C23_MalformedStoredAsNone ==
    [][CommitStep
          => \A a \in 0..2 :
                Undecodable(Labels(prefs)[a + 1])
                    => Holds(keyFile', PN, HotkeyKey(a), IntToText(0 - 1))]_vars

\* the modifiers hotkey_pressed keeps of an event: those the key translation
\* did not consume, masked to the default modifier mask
KeptMods(kc, state) ==
    (state \ TranslateKeyboardState(kc, state).consumed) \cap DefaultModMask

\* the label a capture that ended with GTK_RESPONSE_OK has just written
CapturedLabel == Labels(prefs)[ActionOf(lastCall.widget) + 1]

\* the label create_prefs_window shows for a stored key code and modifiers
RestoredLabel(code, mods) == set_label_for_keycode(NoneText, code, mods)

\* C24: a binding captured by hotkey_pressed is stored by a commit as the
\* hardware keycode and the kept modifiers of the captured event, and the
\* label restored from the stored pair is stored by a second commit as the
\* same pair; the "(None)" label is stored as key code -1 and restored as
\* "(None)".
C24_AcceleratorRoundTrip ==
    (lastCall.result = "ok" /\ lastCall.pressed /\ prefs # NULL)
        => LET code == LabelKeycode(CapturedLabel)
               mods == LabelMods(CapturedLabel)
               again == RestoredLabel(code, mods)
           IN  IF CapturedLabel = NoneText
               THEN code = 0 - 1 /\ again = NoneText /\ LabelKeycode(again) = 0 - 1
               ELSE /\ code = lastCall.keycode
                    /\ IntToMods(mods) = KeptMods(lastCall.keycode, lastCall.state)
                    /\ LabelKeycode(again) = code
                    /\ LabelMods(again) = mods

\* what a key file in memory holds; the NULL key file holds nothing
StoreContent(kf) == IF kf = NULL THEN EmptyKv ELSE kf[1]

\* C25: whenever the file on disk is written, it is written whole from the
\* key file in memory: afterwards it holds exactly what the key file holds
\* at that save, all values staged by the committing window included when
\* there is a key file, and never only some of them.
C25_FileIsWholeStore ==
    [][cfgFile' # cfgFile
          => /\ cfgFile'.state = "valid"
             /\ cfgFile'.kv = StoreContent(keyFile')
             /\ (CommitStep /\ keyFile' # NULL)
                   => StagedInStore(<<cfgFile'.kv>>, W)]_vars

\* a commit with an edited scroll step has written the file
C25_Witness ==
    /\ counts.commits = 1 /\ counts.edits = 1 /\ keyFile # NULL
    /\ cfgFile.state = "valid" /\ cfgFile.kv = keyFile[1]
    /\ Holds(keyFile, PN, "ScrollStep", DoubleToText(100))

\* the accelerator text of a key press event: the translated key symbol
\* with the modifiers kept
EventText(kc, state) ==
    gtk_accelerator_name(TranslateKeyboardState(kc, state).keyval, KeptMods(kc, state))

\* the event is the reserved combination Control+C
IsAbortEvent(kc, state) ==
    /\ TranslateKeyboardState(kc, state).keyval \in {"c", "C"}
    /\ KeptMods(kc, state) = {"Control"}

\* C26: while a capture is in progress and a key was pressed, the key label
\* (the candidate) is the accelerator text of the most recent key press,
\* its consumed modifiers removed and the rest masked to the default
\* modifier mask; and the binding a capture writes on its key release is
\* that text for the most recent key press ("(None)" for Control+C).
C26_LatestPressWins ==
    /\ (stack # <<>> /\ Top.pressed /\ prefs # NULL)
          => W.hotkey_key_label = EventText(Top.keycode, Top.state)
    /\ (lastCall.result = "ok" /\ lastCall.pressed /\ prefs # NULL)
          => CapturedLabel = IF IsAbortEvent(lastCall.keycode, lastCall.state)
                             THEN NoneText
                             ELSE EventText(lastCall.keycode, lastCall.state)

\* Shift+Mod2+c was the last key press of a capture that wrote "c"
C26_Witness ==
    /\ lastCall.result = "ok" /\ lastCall.pressed /\ prefs # NULL
    /\ lastCall.keycode = 54 /\ lastCall.state = {"Shift", "Mod2"}
    /\ CapturedLabel = <<"c">>

\* C27: a capture session that listens holds the grab of the device it
\* grabbed, however long it listens; and, every session getting a key
\* release or a dismissal in the end, every capture session is followed by
\* a state with no session in progress and no grab held.
C27_CaptureEndsIdle ==
    /\ [](Listening => EventDevice("button") \in grabbed)
    /\ (stack # <<>>) ~> (stack = <<>> /\ grabbed = {})

\* a capture session has ended, by a release or by a dismissal, and the
\* grab is released
C27_Witness ==
    /\ lastCall.result \in {"ok", "cancel"} /\ lastCall.grabTried
    /\ stack = <<>> /\ grabbed = {} /\ ~dialogVisible

\* the position of the call of function f in the call sequence o (0: none)
CallPos(o, f) ==
    IF \E i \in 1..Len(o) : o[i][1] = f
    THEN CHOOSE i \in 1..Len(o) : o[i][1] = f /\ \A j \in 1..(i - 1) : o[j][1] # f
    ELSE 0

SetterNames ==
    {"prefs_set_boolean", "prefs_set_integer", "prefs_set_double",
     "prefs_set_string", "prefs_set_channel", "prefs_set_vol_meter_colors"}

\* C28: in a commit every staged value is written into the store before
\* the save, the save comes before apply_prefs, the audio
\* reinitialisation, made exactly when it is requested, is the last call
\* of apply_prefs, and the window is destroyed after apply_prefs has
\* returned; so a file the commit writes holds every staged value.
C28_CommitOrder ==
    [][CommitStep
          => LET o == runtime'.order
                 save == CallPos(o, "prefs_save")
                 apply == CallPos(o, "apply_prefs")
                 destroy == CallPos(o, "gtk_widget_destroy")
                 reinit == CallPos(o, "do_alsa_reinit")
             IN  /\ save > 0 /\ save < apply /\ apply < destroy
                 /\ destroy = Len(o)
                 /\ \A i \in 1..Len(o) :
                       /\ o[i][1] \in SetterNames => i < save
                       /\ i < save => o[i][1] \in SetterNames
                 /\ {o[i][2] : i \in 1..(save - 1)} =
                        {"SliderOrientation", "DisplayTextVolume",
                         "TextVolumePosition", "DrawVolMeter", "VolMeterPos",
                         "VolMeterColor", "AlsaCard", "Channel", "SystemTheme",
                         "VolumeControlCommand", "ScrollStep", "FineScrollStep",
                         "MiddleClickAction", "CustomCommand", "NormalizeVolume",
                         "EnableHotKeys", "HotkeyVolumeStep", "VolMuteKey",
                         "VolMuteMods", "VolUpKey", "VolUpMods", "VolDownKey",
                         "VolDownMods"}
                 /\ (reinit > 0) <=> AlsaChange(keyFile, W)
                 /\ reinit > 0 => reinit = destroy - 1
                 /\ (cfgFile' # cfgFile /\ keyFile' # NULL)
                       => StagedInStore(<<cfgFile'.kv>>, W)
                 /\ prefs' = NULL]_vars

\* a commit that changed the card has reinitialised the audio last
C28_Witness ==
    /\ counts.commits = 1 /\ prefs = NULL /\ runtime.alsa_reinit
    /\ Len(runtime.order) > 2
    /\ runtime.order[Len(runtime.order) - 1][1] = "do_alsa_reinit"
    /\ runtime.order[Len(runtime.order)][1] = "gtk_widget_destroy"

\* the integer the key file holds for a key of the main group, def when it
\* holds none
StoredInt(kf, key, def) ==
    IF KfHas(kf, PN, key) /\ ParseInt(kf[1][<<PN, key>>]).ok
    THEN ParseInt(kf[1][<<PN, key>>]).v ELSE def

\* EnableHotKeys is stored as true
HotkeysEnabled(kf) ==
    KfHas(kf, PN, "EnableHotKeys") /\ kf[1][<<PN, "EnableHotKeys">>] \in {<<"true">>, <<"1">>}

\* C29: once the preferences were applied, the hotkeys handed to grab_keys
\* are the stored VolMuteKey, VolUpKey, VolDownKey, their modifiers and
\* HotkeyVolumeStep (-1, 0 and 1 for those not stored) when EnableHotKeys
\* is stored as true, and no key (-1, -1, -1) when it is false or absent,
\* whatever keys are stored.
C29_ArmedHotkeys ==
    booted =>
        runtime.keys =
            IF HotkeysEnabled(keyFile)
            THEN <<StoredInt(keyFile, "VolMuteKey", 0 - 1),
                   StoredInt(keyFile, "VolUpKey", 0 - 1),
                   StoredInt(keyFile, "VolDownKey", 0 - 1),
                   StoredInt(keyFile, "VolMuteMods", 0),
                   StoredInt(keyFile, "VolUpMods", 0),
                   StoredInt(keyFile, "VolDownMods", 0),
                   StoredInt(keyFile, "HotkeyVolumeStep", 1)>>
            ELSE <<0 - 1, 0 - 1, 0 - 1, 0, 0, 0, 1>>

\* a commit that disabled the hotkeys left the stored Volume Up key unarmed
C29_Witness ==
    /\ booted /\ counts.commits = 1 /\ keyFile # NULL
    /\ ~HotkeysEnabled(keyFile)
    /\ StoredInt(keyFile, "VolUpKey", 0 - 1) = 38
    /\ runtime.keys[2] = 0 - 1

\* the device names, as texts
Devices == {<<CardNames[i]>> : i \in 1..Len(CardNames)}

\* C30: a commit with device c and channel ch selected leaves ch as the
\* channel stored under c's section and the channel of every other device
\* as it was, with no Channel key in the main section; and get_channel
\* returns null for a device with no stored channel and for a null device.
C30_ChannelPerDevice ==
    [][CommitStep
          => /\ Holds(keyFile', GroupOf(W.card_combo), "Channel", W.chan_combo)
             /\ prefs_get_channel(keyFile', Str(W.card_combo)) = Str(W.chan_combo)
             /\ \A d \in Devices \ {W.card_combo} :
                   prefs_get_channel(keyFile', Str(d)) = prefs_get_channel(keyFile, Str(d))
             /\ ~KfHas(keyFile', PN, "Channel")
             /\ prefs_get_channel(keyFile', NULLSTR) = NULLSTR
             /\ \A d \in Devices :
                   ~KfHas(keyFile', GroupOf(d), "Channel")
                       => prefs_get_channel(keyFile', Str(d)) = NULLSTR]_vars

\* C31: after a commit the scroll step and the fine scroll step of the
\* running program are the values staged in the two spin buttons (the
\* spin buttons hold tenths, the running program whole steps).
C31_ScrollStepsApplied ==
    [][CommitStep
          => /\ 10 * runtime'.scroll_step = W.scroll_step_spin
             /\ 10 * runtime'.fine_scroll_step = W.fine_scroll_step_spin]_vars

=============================================================================
